---------------------------- MODULE Spec2Model ----------------------------
(***************************************************************************)
(* Range planning and range execution of                                   *)
(* packages/gatsby/src/datastore/lmdb/query/filter-using-index.ts.         *)
(*                                                                         *)
(* Encoding of the ordered key space.  A composite key is a flat sequence  *)
(* of integers <<keyPrefix, field values ..., node id>>.  A RangeValue is  *)
(* a short sequence: a plain value v is <<v>>, getValueEdgeAfter(v) is     *)
(* <<v, BinaryInfinityPositive>>, getValueEdgeBefore(v) is                 *)
(* <<undefinedSymbol, v>>.  A RangeBoundary is a sequence of RangeValues;  *)
(* the store orders keys as ordered-binary does, which writes a nested     *)
(* array element after element, so a boundary is compared by its           *)
(* flattening.  The integers that stand for null, the undefined symbol     *)
(* and the two infinities are ranked as the source documents the index     *)
(* ordering (filter-using-index.ts lines 460-468).                         *)
(***************************************************************************)
EXTENDS Integers, Sequences, FiniteSets, TLC

VARIABLES
  dbQueries,       \* context.dbQueries: sequence of filter statements
  indexFields,     \* context.indexFields: field names in index order
  index,           \* keys of this index in databases.indexes, in key order
  maxKeysPerItem,  \* context.indexMetadata.maxKeysPerItem
  limit,           \* context.limit of the last call, NoLimit when absent
  offset,          \* context.offset of the last call
  reverse,         \* context.reverse of the last call
  pc,              \* position of the caller
  plan,            \* what getIndexRanges returned
  result,          \* what performRangeScan / performFullScan returned
  narrowed,        \* what filterUsingIndex / narrowResultsIfPossible returned
  count            \* what countUsingIndex returned

vars == <<dbQueries, indexFields, index, maxKeysPerItem, limit, offset,
          reverse, pc, plan, result, narrowed, count>>

-----------------------------------------------------------------------------
(* Bounds of the model *)

MaxInLen == 2
MaxClauses == 2
MaxFieldClauses == 2
MaxEntries == 3
MaxKeys == 2
MaxLimit == 1
MaxOffset == 1

-----------------------------------------------------------------------------
(* Values of the key space *)

BinaryInfinityNegative == -3
Null == -2
undefinedSymbol == -1
BinaryInfinityPositive == 255
keyPrefix == 1
NoLimit == 0

ValueEdges == [BEFORE |-> -1, NONE |-> 0, AFTER |-> 1]

canUseIndex == <<"EQ", "IN", "GTE", "LTE", "GT", "LT">>

RealValues == {1, 2}
FilterValues == {Null} \cup RealValues
FieldValues == {Null, undefinedSymbol} \cup RealValues
NodeIds == {1, 2}

Min(a, b) == IF a < b THEN a ELSE b

SeqsUpTo(S, n) == UNION {[1..k -> S] : k \in 0..n}

Range(s) == {s[i] : i \in 1..Len(s)}

\* compareKey of the store: lexicographic, a proper prefix sorts first
RECURSIVE KeyLess(_, _)
KeyLess(a, b) ==
  IF b = <<>> THEN FALSE
  ELSE IF a = <<>> THEN TRUE
  ELSE IF Head(a) # Head(b) THEN Head(a) < Head(b)
  ELSE KeyLess(Tail(a), Tail(b))

KeyLeq(a, b) == ~KeyLess(b, a)

RECURSIVE Flatten(_)
Flatten(boundary) ==
  IF boundary = <<>> THEN <<>>
  ELSE Head(boundary) \o Flatten(Tail(boundary))

getValueEdgeAfter(value) == <<value, BinaryInfinityPositive>>

getValueEdgeBefore(value) == <<undefinedSymbol, value>>

toIndexFieldValue(filterValue) == filterValue

getIdentifier(entry) == entry[Len(entry)]

-----------------------------------------------------------------------------
(* Filter classifier *)

Indices(all) == [i \in 1..Len(all) |-> i]

WithComparator(all, comparator) ==
  SelectSeq(Indices(all), LAMBDA i : all[i].comparator = comparator)

RECURSIVE sortByFilterSpecificity(_, _)
sortByFilterSpecificity(all, k) ==
  IF k > Len(canUseIndex) THEN <<>>
  ELSE WithComparator(all, canUseIndex[k]) \o sortByFilterSpecificity(all, k + 1)

\* clauses are kept by identity: a query is its position in dbQueries
getQueriesThatCanUseIndex(all) == sortByFilterSpecificity(all, 1)

-----------------------------------------------------------------------------
(* Range extractor *)

findRangeEdge(all, queries, usedQueries, comparator, edge) ==
  LET hits == SelectSeq(queries, LAMBDA i :
                i \notin usedQueries /\ all[i].comparator = comparator)
  IN IF hits = <<>>
     THEN [found |-> FALSE, value |-> <<>>, used |-> usedQueries]
     ELSE LET value == all[hits[1]].value[1]
          IN [found |-> TRUE,
              value |-> IF edge = 0 THEN <<value>>
                        ELSE IF edge < 0 THEN getValueEdgeBefore(value)
                        ELSE getValueEdgeAfter(value),
              used |-> usedQueries \cup {hits[1]}]

\* what the ?? operator takes for missing: undefined, and a plain null too
Nullish(r) == ~r.found \/ r.value = <<Null>>

\* variant: the range of the undefined symbol is left out
extractEqInNoUndefined(filter, best) ==
  LET arr == filter.value
  IN [usedQueries |-> {best},
      rangeStarts |-> [k \in 1..Len(arr) |-> <<toIndexFieldValue(arr[k])>>],
      rangeEndings |-> [k \in 1..Len(arr) |->
                          getValueEdgeAfter(toIndexFieldValue(arr[k]))]]

extractEqIn(filter, best) ==
  LET arr == filter.value
      hasNull == \E k \in 1..Len(arr) : toIndexFieldValue(arr[k]) = Null
      starts == [k \in 1..Len(arr) |-> <<toIndexFieldValue(arr[k])>>]
      ends == [k \in 1..Len(arr) |-> getValueEdgeAfter(toIndexFieldValue(arr[k]))]
  IN [usedQueries |-> {best},
      rangeStarts |-> IF hasNull THEN Append(starts, <<undefinedSymbol>>)
                      ELSE starts,
      rangeEndings |-> IF hasNull
                       THEN Append(ends, getValueEdgeAfter(undefinedSymbol))
                       ELSE ends]

\* variant: an unbounded lower side always starts at negative infinity
extractLtLteFromTop(all, fieldQueries, filter, best) ==
  LET value == toIndexFieldValue(filter.value[1])
      end == IF filter.comparator = "LT" THEN <<value>>
             ELSE getValueEdgeAfter(value)
      gte == findRangeEdge(all, fieldQueries, {best}, "GTE", ValueEdges.NONE)
      gt == findRangeEdge(all, fieldQueries, gte.used, "GT", ValueEdges.AFTER)
      start == IF ~Nullish(gte) THEN gte.value
               ELSE IF ~Nullish(gt) THEN gt.value
               ELSE <<BinaryInfinityNegative>>
  IN [usedQueries |-> IF ~Nullish(gte) THEN gte.used ELSE gt.used,
      rangeStarts |-> <<start>>,
      rangeEndings |-> <<end>>]

extractLtLte(all, fieldQueries, filter, best) ==
  LET value == toIndexFieldValue(filter.value[1])
      end == IF filter.comparator = "LT" THEN <<value>>
             ELSE getValueEdgeAfter(value)
      gte == findRangeEdge(all, fieldQueries, {best}, "GTE", ValueEdges.NONE)
      gt == findRangeEdge(all, fieldQueries, gte.used, "GT", ValueEdges.AFTER)
      rangeHead == IF value = Null THEN <<BinaryInfinityNegative>>
                   ELSE getValueEdgeAfter(undefinedSymbol)
      start == IF ~Nullish(gte) THEN gte.value
               ELSE IF ~Nullish(gt) THEN gt.value
               ELSE rangeHead
  IN [usedQueries |-> IF ~Nullish(gte) THEN gte.used ELSE gt.used,
      rangeStarts |-> <<start>>,
      rangeEndings |-> <<end>>]

extractGtGte(all, fieldQueries, filter, best) ==
  LET value == toIndexFieldValue(filter.value[1])
      start == IF filter.comparator = "GTE" THEN <<value>>
               ELSE getValueEdgeAfter(value)
      lte == findRangeEdge(all, fieldQueries, {best}, "LTE", ValueEdges.AFTER)
      lt == findRangeEdge(all, fieldQueries, lte.used, "LT", ValueEdges.NONE)
      rangeTail == IF value = Null THEN getValueEdgeAfter(Null)
                   ELSE <<BinaryInfinityPositive>>
      end == IF ~Nullish(lte) THEN lte.value
             ELSE IF ~Nullish(lt) THEN lt.value
             ELSE rangeTail
  IN [usedQueries |-> IF ~Nullish(lte) THEN lte.used ELSE lt.used,
      rangeStarts |-> <<start>>,
      rangeEndings |-> <<end>>]

extractRanges(all, queries, indexField) ==
  LET fieldQueries == SelectSeq(queries, LAMBDA i : all[i].field = indexField)
  IN IF fieldQueries = <<>>
     THEN [usedQueries |-> {}, rangeStarts |-> <<>>, rangeEndings |-> <<>>]
     ELSE LET bestMatchingQuery == fieldQueries[1]
              filter == all[bestMatchingQuery]
          IN CASE filter.comparator \in {"EQ", "IN"} ->
                    extractEqIn(filter, bestMatchingQuery)
               [] filter.comparator \in {"LT", "LTE"} ->
                    extractLtLte(all, fieldQueries, filter, bestMatchingQuery)
               [] filter.comparator \in {"GT", "GTE"} ->
                    extractGtGte(all, fieldQueries, filter, bestMatchingQuery)

-----------------------------------------------------------------------------
(* Range composer *)

\* common.ts cartesianProduct: the first list varies slowest
RECURSIVE cartesianProduct(_)
cartesianProduct(lists) ==
  IF lists = <<>> THEN << <<>> >>
  ELSE LET n == Len(lists)
           a == cartesianProduct(SubSeq(lists, 1, n - 1))
           b == lists[n]
       IN [j \in 1..(Len(a) * Len(b)) |->
             Append(a[((j - 1) \div Len(b)) + 1], b[((j - 1) % Len(b)) + 1])]

\* variant: a field without ranges is skipped and the loop goes on
RECURSIVE extractLoopNoBreak(_, _, _, _, _)
extractLoopNoBreak(all, queries, fields, k, acc) ==
  IF k > Len(fields) THEN acc
  ELSE LET r == extractRanges(all, queries, fields[k])
       IN IF r.rangeStarts = <<>>
          THEN extractLoopNoBreak(all, queries, fields, k + 1, acc)
          ELSE extractLoopNoBreak(all, queries, fields, k + 1,
                 [usedQueries |-> acc.usedQueries \cup r.usedQueries,
                  rangeStarts |-> Append(acc.rangeStarts, r.rangeStarts),
                  rangeEndings |-> Append(acc.rangeEndings, r.rangeEndings)])

RECURSIVE extractLoop(_, _, _, _, _)
extractLoop(all, queries, fields, k, acc) ==
  IF k > Len(fields) THEN acc
  ELSE LET r == extractRanges(all, queries, fields[k])
       IN IF r.rangeStarts = <<>> THEN acc
          ELSE extractLoop(all, queries, fields, k + 1,
                 [usedQueries |-> acc.usedQueries \cup r.usedQueries,
                  rangeStarts |-> Append(acc.rangeStarts, r.rangeStarts),
                  rangeEndings |-> Append(acc.rangeEndings, r.rangeEndings)])

getIndexRanges(all, fields) ==
  LET queriesThatCanUseIndex == getQueriesThatCanUseIndex(all)
      acc == extractLoop(all, queriesThatCanUseIndex, fields, 1,
               [usedQueries |-> {}, rangeStarts |-> <<>>, rangeEndings |-> <<>>])
  IN IF acc.rangeStarts = <<>>
     THEN [usedQueries |-> acc.usedQueries, ranges |-> <<>>]
     ELSE LET rangeStartsProduct == cartesianProduct(acc.rangeStarts)
              rangeEndingsProduct == cartesianProduct(acc.rangeEndings)
          IN [usedQueries |-> acc.usedQueries,
              ranges |-> [i \in 1..Len(rangeStartsProduct) |->
                            [start |-> rangeStartsProduct[i],
                             end |-> rangeEndingsProduct[i]]]]

-----------------------------------------------------------------------------
(* The key-value engine: databases.indexes *)

\* the database holds the neighbouring indexes too: one entry of the index
\* before this one and one of the index after it
store ==
  <<<<keyPrefix - 1, 1, 1>>>> \o index \o <<<<keyPrefix + 1, Null, 1>>>>

RECURSIVE Sorted(_)
Sorted(keys) ==
  IF keys = {} THEN <<>>
  ELSE LET first == CHOOSE k \in keys : \A o \in keys : KeyLeq(k, o)
       IN <<first>> \o Sorted(keys \ {first})

Reversed(s) == [i \in 1..Len(s) |-> s[Len(s) + 1 - i]]

\* number of stored keys before the boundary, the boundary itself excluded
\* or included
keysBelow(boundary) ==
  Cardinality({i \in 1..Len(store) : KeyLess(store[i], boundary)})

keysUpTo(boundary) ==
  Cardinality({i \in 1..Len(store) : KeyLeq(store[i], boundary)})

\* start is inclusive and end exclusive in the direction of the iteration
getRange(range) ==
  LET ordered ==
        IF ~range.reverse
        THEN SubSeq(store, keysBelow(range.start) + 1, keysBelow(range.end))
        ELSE Reversed(SubSeq(store, keysUpTo(range.end) + 1,
                             keysUpTo(range.start)))
      skipped == SubSeq(ordered, range.offset + 1, Len(ordered))
  IN IF range.limit = NoLimit THEN skipped
     ELSE SubSeq(skipped, 1, Min(range.limit, Len(skipped)))

getKeysCount(range) ==
  Len(SubSeq(store, keysBelow(range.start) + 1, keysBelow(range.end)))

RECURSIVE deduplicate(_, _)
deduplicate(entries, seen) ==
  IF entries = <<>> THEN <<>>
  ELSE IF getIdentifier(Head(entries)) \in seen
       THEN deduplicate(Tail(entries), seen)
       ELSE <<Head(entries)>> \o
            deduplicate(Tail(entries), seen \cup {getIdentifier(Head(entries))})

RECURSIVE concatAll(_)
concatAll(lists) ==
  IF lists = <<>> THEN <<>> ELSE Head(lists) \o concatAll(Tail(lists))

-----------------------------------------------------------------------------
(* Range executor *)

\* the offset after the if (limit) block
scanOffset(context, ranges) ==
  IF context.limit # NoLimit /\ Len(ranges) > 1 THEN 0 ELSE context.offset

\* variant: a multi-valued index is scanned without any limit
scanLimitDropped(context) ==
  IF context.limit # NoLimit /\ maxKeysPerItem > 1 THEN NoLimit
  ELSE context.limit

\* the limit after the if (limit) block
scanLimit(context) ==
  IF context.limit # NoLimit /\ maxKeysPerItem > 1
  THEN context.limit * maxKeysPerItem
  ELSE context.limit

\* the range objects handed to indexes.getRange, in order
rangeScans(context, ranges) ==
  [i \in 1..Len(ranges) |->
     LET start == Flatten(<< <<keyPrefix>> >> \o ranges[i].start)
         end == Flatten(<< <<keyPrefix>> >> \o ranges[i].end)
     IN IF ~context.reverse
        THEN [start |-> start, end |-> end, limit |-> scanLimit(context),
              offset |-> scanOffset(context, ranges), reverse |-> FALSE]
        ELSE [start |-> end, end |-> start, limit |-> scanLimit(context),
              offset |-> scanOffset(context, ranges), reverse |-> TRUE]]

performRangeScan(context, ranges, usedQueries) ==
  LET issued == rangeScans(context, ranges)
      matches == concatAll([i \in 1..Len(issued) |-> getRange(issued[i])])
  IN [entries |-> IF maxKeysPerItem > 1 THEN deduplicate(matches, {})
                  ELSE matches,
      usedLimit |-> scanLimit(context),
      usedOffset |-> scanOffset(context, ranges),
      usedQueries |-> usedQueries,
      scans |-> issued]

fullScans(indexName, rev) ==
  LET start == Flatten(<< <<indexName>>, getValueEdgeAfter(undefinedSymbol) >>)
      end == Flatten(<< getValueEdgeAfter(indexName) >>)
      top == Flatten(<< <<indexName>>, <<Null>> >>)
  IN IF ~rev
     THEN << [start |-> start, end |-> end, limit |-> NoLimit, offset |-> 0,
              reverse |-> FALSE],
             [start |-> top, end |-> start, limit |-> NoLimit, offset |-> 0,
              reverse |-> FALSE] >>
     ELSE << [start |-> end, end |-> start, limit |-> NoLimit, offset |-> 0,
              reverse |-> TRUE],
             [start |-> start, end |-> top, limit |-> NoLimit, offset |-> 0,
              reverse |-> TRUE] >>

\* variant: the two scans are concatenated in the order of the store
performFullScanStoreOrder(indexName, rev) ==
  LET issued == fullScans(indexName, rev)
      undefinedToEnd == getRange(issued[1])
      topToUndefined == getRange(issued[2])
  IN deduplicate(IF ~rev THEN topToUndefined \o undefinedToEnd
                 ELSE undefinedToEnd \o topToUndefined, {})

performFullScan(indexName, rev) ==
  LET issued == fullScans(indexName, rev)
      undefinedToEnd == getRange(issued[1])
      topToUndefined == getRange(issued[2])
  IN deduplicate(IF ~rev THEN undefinedToEnd \o topToUndefined
                 ELSE topToUndefined \o undefinedToEnd, {})

-----------------------------------------------------------------------------
(* Counter *)

\* count += indexes.getKeysCount(...) over the ranges
RECURSIVE countRanges(_)
countRanges(ranges) ==
  IF ranges = <<>> THEN 0
  ELSE getKeysCount(
         [start |-> Flatten(<< <<keyPrefix>> >> \o Head(ranges).start),
          end |-> Flatten(<< <<keyPrefix>> >> \o Head(ranges).end)])
       + countRanges(Tail(ranges))

\* countUsingIndex from its second statement on: p is what getIndexRanges
\* returned in the first
countUsingIndex(p) ==
  IF Cardinality(p.usedQueries) # Len(dbQueries)
  THEN [status |-> "unresolved", value |-> 0]
  ELSE IF maxKeysPerItem > 1
  THEN [status |-> "multikey", value |-> 0]
  ELSE IF Len(p.ranges) = 0
  THEN [status |-> "ok",
        value |-> getKeysCount([start |-> <<keyPrefix>>,
                                end |-> Flatten(<< getValueEdgeAfter(keyPrefix) >>)])]
  ELSE [status |-> "ok", value |-> countRanges(p.ranges)]

-----------------------------------------------------------------------------
(* Residual narrower *)

\* common.ts shouldFilter: does fieldValue pass the filter statement
shouldFilter(filter, fieldValue) ==
  LET value == filter.value[1]
      eq(v) == IF v = Null THEN fieldValue \in {Null, undefinedSymbol}
               ELSE fieldValue = v
      real == fieldValue \in RealValues
  IN CASE filter.comparator = "EQ" -> eq(value)
       [] filter.comparator = "NE" -> ~eq(value)
       [] filter.comparator = "IN" ->
            \E k \in 1..Len(filter.value) : eq(filter.value[k])
       [] filter.comparator = "GTE" ->
            IF value = Null THEN fieldValue = Null ELSE real /\ fieldValue >= value
       [] filter.comparator = "LTE" ->
            IF value = Null THEN fieldValue = Null ELSE real /\ fieldValue <= value
       [] filter.comparator = "GT" -> value # Null /\ real /\ fieldValue > value
       [] filter.comparator = "LT" -> value # Null /\ real /\ fieldValue < value

firstFieldOffset == 1

fieldPosition(fields, fieldName) ==
  CHOOSE p \in 1..Len(fields) : fields[p] = fieldName

narrowResultsIfPossible(entries, fields, all, usedQueries) ==
  LET filtersToApply ==
        SelectSeq(Indices(all), LAMBDA i :
          i \notin usedQueries /\ all[i].field \in Range(fields))
      passes(key) ==
        \A n \in 1..Len(filtersToApply) :
          shouldFilter(all[filtersToApply[n]],
            key[firstFieldOffset + fieldPosition(fields, all[filtersToApply[n]].field)])
  IN [usedQueries |-> usedQueries \cup Range(filtersToApply),
      entries |-> IF filtersToApply = <<>> THEN entries
                  ELSE SelectSeq(entries, passes)]

-----------------------------------------------------------------------------
(* Inputs *)

ScalarComparators == {"EQ", "NE", "GTE", "LTE", "GT", "LT"}

ClausesOn(f) ==
  {[field |-> f, comparator |-> c, value |-> <<v>>] :
     c \in ScalarComparators, v \in FilterValues}
  \cup {[field |-> f, comparator |-> "IN", value |-> vs] :
          vs \in SeqsUpTo(FilterValues, MaxInLen)}

IndexOrders == {<<"a">>, <<"a", "b">>, <<"a", "b", "c">>}

\* one clause of every shape the composer tells apart, on each field
ComposeShapes ==
  {[comparator |-> "EQ", value |-> <<1>>],
   [comparator |-> "EQ", value |-> <<Null>>],
   [comparator |-> "IN", value |-> <<>>],
   [comparator |-> "IN", value |-> <<2, 1>>],
   [comparator |-> "GTE", value |-> <<1>>],
   [comparator |-> "LT", value |-> <<2>>],
   [comparator |-> "NE", value |-> <<1>>]}

ComposeClauses ==
  {[field |-> f, comparator |-> s.comparator, value |-> s.value] :
     f \in {"a", "b", "c"}, s \in ComposeShapes}

KeysOf(fields) ==
  {<<keyPrefix>> \o vs \o <<id>> :
     vs \in [1..Len(fields) -> FieldValues], id \in NodeIds}

KeysOfDoc(keys, id) == {k \in keys : getIdentifier(k) = id}

\* the contents an index of a node collection can have: at most perItem keys
\* of one node
Indexes(fields, perItem) ==
  {keys \in SUBSET KeysOf(fields) :
     /\ Cardinality(keys) <= MaxEntries
     /\ \A id \in NodeIds : Cardinality(KeysOfDoc(keys, id)) <= perItem}

\* no clause, a clause the planner cannot use, and one clause per plan shape
ScanQueries ==
  {<<>>} \cup
  {<<[field |-> "a", comparator |-> c.comparator, value |-> c.value]>> :
     c \in {[comparator |-> "NE", value |-> <<1>>],
            [comparator |-> "EQ", value |-> <<1>>],
            [comparator |-> "GTE", value |-> <<1>>],
            [comparator |-> "IN", value |-> <<1, 2>>],
            [comparator |-> "IN", value |-> <<2, 1>>],
            [comparator |-> "IN", value |-> <<1, 1>>],
            [comparator |-> "IN", value |-> <<Null, 1>>]}}
  \cup
  \* a clause the planner leaves to the narrower beside one it uses, and a
  \* clause on a field that is not in the index
  {<<[field |-> "a", comparator |-> "GTE", value |-> <<1>>],
     [field |-> "a", comparator |-> "NE", value |-> <<1>>]>>,
   <<[field |-> "z", comparator |-> "EQ", value |-> <<1>>]>>}

NoPlan == [usedQueries |-> {}, ranges |-> <<>>]
NoResult == [entries |-> <<>>, usedLimit |-> NoLimit, usedOffset |-> 0,
             usedQueries |-> {}, scans |-> <<>>]
NoNarrowed == [status |-> "none", usedQueries |-> {}, entries |-> <<>>]

\* what a full scan returns, as a scan result
FullScanResult(entries) ==
  [entries |-> entries, usedLimit |-> NoLimit, usedOffset |-> 0,
   usedQueries |-> {}, scans |-> <<>>]

\* filterUsingIndex calls performFullScan(context): the index name is missing
\* and the direction takes its default. The place of the index name in the
\* boundaries is then held by a value that is the key prefix of no index; the
\* source does not tell where the engine orders it, before or after them all.
UndefinedNames == {keyPrefix - 2, keyPrefix + 2}
NoCount == [status |-> "none", value |-> 0]

-----------------------------------------------------------------------------
(* Specifications *)

Contexts ==
  [limit : 0..MaxLimit, offset : 0..MaxOffset, reverse : BOOLEAN]

\* the planner alone
Init ==
  /\ indexFields = <<"a">>
  /\ dbQueries = <<>>
  /\ index = <<>>
  /\ maxKeysPerItem = 1
  /\ limit = NoLimit
  /\ offset = 0
  /\ reverse = FALSE
  /\ pc = "getIndexRanges"
  /\ plan = NoPlan
  /\ result = NoResult
  /\ narrowed = NoNarrowed
  /\ count = NoCount

\* a stored single-field index and a query, then the two entry points
InitScan ==
  /\ indexFields = <<"a">>
  /\ dbQueries \in ScanQueries
  /\ maxKeysPerItem \in 1..MaxKeys
  /\ \E keys \in Indexes(indexFields, maxKeysPerItem) : index = Sorted(keys)
  /\ limit = NoLimit
  /\ offset = 0
  /\ reverse = FALSE
  /\ pc = "countUsingIndex"
  /\ plan = NoPlan
  /\ result = NoResult
  /\ narrowed = NoNarrowed
  /\ count = NoCount

Plans(fields, queries) ==
  /\ indexFields' = fields
  /\ dbQueries' = queries
  /\ plan' = getIndexRanges(queries, fields)
  /\ pc' = "planned"
  /\ UNCHANGED <<index, maxKeysPerItem, limit, offset, reverse, result,
                 narrowed, count>>

\* getIndexRanges on every clause list over one indexed field, and on lists
\* of clause shapes over an index of up to three fields
GetIndexRanges ==
  /\ pc = "getIndexRanges"
  /\ \/ \E n \in 0..MaxFieldClauses :
          \E queries \in [1..n -> ClausesOn("a")] : Plans(<<"a">>, queries)
     \/ \E fields \in IndexOrders, n \in 0..MaxClauses :
          \E queries \in [1..n -> ComposeClauses] : Plans(fields, queries)

CountUsingIndex ==
  /\ pc = "countUsingIndex"
  /\ \E p \in {getIndexRanges(dbQueries, indexFields)} :
       count' = countUsingIndex(p)
  /\ pc' = "filterUsingIndex"
  /\ UNCHANGED <<dbQueries, indexFields, index, maxKeysPerItem, limit, offset,
                 reverse, plan, result, narrowed>>

\* filterUsingIndex. Its call narrowResultsIfPossible(context, result,
\* usedQueries) leaves the parameter dbQueries undefined, and iterating it
\* throws a TypeError.
FilterUsingIndex ==
  /\ pc = "filterUsingIndex"
  /\ \E context \in Contexts, indexName \in UndefinedNames :
     \E p \in {getIndexRanges(dbQueries, indexFields)} :
     \E scanned \in
          {IF Len(p.ranges) > 0
           THEN performRangeScan(context, p.ranges, p.usedQueries)
           ELSE FullScanResult(performFullScan(indexName, FALSE))} :
          /\ limit' = context.limit
          /\ offset' = context.offset
          /\ reverse' = context.reverse
          /\ plan' = p
          /\ result' = scanned
          /\ narrowed' =
               IF Cardinality(p.usedQueries) = Len(dbQueries)
               THEN [status |-> "ok", usedQueries |-> p.usedQueries,
                     entries |-> scanned.entries]
               ELSE [status |-> "TypeError", usedQueries |-> p.usedQueries,
                     entries |-> <<>>]
  /\ pc' = "done"
  /\ UNCHANGED <<dbQueries, indexFields, index, maxKeysPerItem, count>>

\* performFullScan with the parameters of its declaration: the key prefix of
\* the index as index name, and a direction
PerformFullScan ==
  /\ pc = "countUsingIndex"
  /\ \E rev \in BOOLEAN :
       /\ reverse' = rev
       /\ result' = FullScanResult(performFullScan(keyPrefix, rev))
  /\ plan' = getIndexRanges(dbQueries, indexFields)
  /\ pc' = "performFullScan"
  /\ UNCHANGED <<dbQueries, indexFields, index, maxKeysPerItem, limit, offset,
                 narrowed, count>>

\* narrowResultsIfPossible with the parameters of its declaration, on the
\* entries of the full scan
NarrowResultsIfPossible ==
  /\ pc = "performFullScan"
  /\ LET n == narrowResultsIfPossible(result.entries, indexFields, dbQueries,
                                      plan.usedQueries)
     IN narrowed' = [status |-> "ok", usedQueries |-> n.usedQueries,
                     entries |-> n.entries]
  /\ pc' = "narrowResultsIfPossible"
  /\ UNCHANGED <<dbQueries, indexFields, index, maxKeysPerItem, limit, offset,
                 reverse, plan, result, count>>

Next == GetIndexRanges

NextScan ==
  \/ CountUsingIndex
  \/ FilterUsingIndex
  \/ PerformFullScan
  \/ NarrowResultsIfPossible

Spec == Init /\ [][Next]_vars

SpecScan == InitScan /\ [][NextScan]_vars

-----------------------------------------------------------------------------
(* Vocabulary of the properties *)

Usable(q) == q.comparator \in Range(canUseIndex)

IsLower(q) == q.comparator \in {"GT", "GTE"}

IsUpper(q) == q.comparator \in {"LT", "LTE"}

\* EQ, IN, GTE, LTE, GT, LT in this order
SpecificityRank(c) ==
  CASE c = "EQ" -> 1 [] c = "IN" -> 2 [] c = "GTE" -> 3
    [] c = "LTE" -> 4 [] c = "GT" -> 5 [] c = "LT" -> 6

UsableOn(f) ==
  {i \in 1..Len(dbQueries) : dbQueries[i].field = f /\ Usable(dbQueries[i])}

\* the most specific usable clause on f, the earliest one among equals
IsAnchor(i, f) ==
  /\ i \in UsableOn(f)
  /\ \A j \in UsableOn(f) :
       \/ SpecificityRank(dbQueries[i].comparator)
            < SpecificityRank(dbQueries[j].comparator)
       \/ /\ dbQueries[i].comparator = dbQueries[j].comparator
          /\ i <= j

\* one key per combination of field values
AllKeys(fields) ==
  {<<keyPrefix>> \o vs \o <<1>> : vs \in [1..Len(fields) -> FieldValues]}

Lower(r) == Flatten(<< <<keyPrefix>> >> \o r.start)

Upper(r) == Flatten(<< <<keyPrefix>> >> \o r.end)

InRange(k, r) == KeyLeq(Lower(r), k) /\ KeyLess(k, Upper(r))

InSomeRange(k, ranges) == \E i \in 1..Len(ranges) : InRange(k, ranges[i])

FieldOf(k, f) == k[firstFieldOffset + fieldPosition(indexFields, f)]

SatisfiesUsed(k) ==
  \A i \in plan.usedQueries :
    shouldFilter(dbQueries[i], FieldOf(k, dbQueries[i].field))

Ids(entries) == {getIdentifier(entries[i]) : i \in 1..Len(entries)}

-----------------------------------------------------------------------------
(* C1 *)

C1_RealRangeTargets ==
  \A i \in plan.usedQueries :
    (IsLower(dbQueries[i]) \/ IsUpper(dbQueries[i]))
      => dbQueries[i].value[1] # Null

\* C1: a key lies inside one of the planned ranges exactly when its field
\* values satisfy every clause of usedQueries, whatever the number of indexed
\* fields the plan constrains (range comparisons taken against real values).
C1_RangesMatchUsedClauses ==
  (pc = "planned" /\ plan.ranges # <<>> /\ C1_RealRangeTargets)
    => \A k \in AllKeys(indexFields) :
         InSomeRange(k, plan.ranges) <=> SatisfiesUsed(k)

\* the same over plans of one indexed field only
OneFieldRangesMatchUsedClauses ==
  (pc = "planned" /\ plan.ranges # <<>> /\ C1_RealRangeTargets
     /\ Len(indexFields) = 1)
    => \A k \in AllKeys(indexFields) :
         InSomeRange(k, plan.ranges) <=> SatisfiesUsed(k)

-----------------------------------------------------------------------------
(* C5 *)

\* the plan of exactly one lower-bound and one upper-bound clause on the one
\* indexed field, supplied in either order
C5_BoundPair(lo, up) ==
  /\ pc = "planned"
  /\ indexFields = <<"a">>
  /\ Len(dbQueries) = 2
  /\ {lo, up} = {1, 2}
  /\ dbQueries[lo].field = "a" /\ IsLower(dbQueries[lo])
  /\ dbQueries[up].field = "a" /\ IsUpper(dbQueries[up])

C5_Start(q) ==
  IF q.comparator = "GTE" THEN <<q.value[1]>>
  ELSE <<q.value[1], BinaryInfinityPositive>>

C5_End(q) ==
  IF q.comparator = "LT" THEN <<q.value[1]>>
  ELSE <<q.value[1], BinaryInfinityPositive>>

\* C5: a lower-bound clause and an upper-bound clause on one indexed field,
\* in either order, give exactly one range from the lower value (or its edge
\* after, for GT) to the upper value (or its edge after, for LTE), and both
\* clauses are used.
C5_OneRangePerBoundPair ==
  \A lo, up \in 1..2 :
    C5_BoundPair(lo, up)
      => /\ plan.ranges = << [start |-> <<C5_Start(dbQueries[lo])>>,
                              end |-> <<C5_End(dbQueries[up])>>] >>
         /\ plan.usedQueries = {1, 2}

\* the same, but for an LT clause whose value is null
C5_ExceptLtNull ==
  \A lo, up \in 1..2 :
    (C5_BoundPair(lo, up)
       /\ ~(dbQueries[up].comparator = "LT" /\ dbQueries[up].value[1] = Null))
      => /\ plan.ranges = << [start |-> <<C5_Start(dbQueries[lo])>>,
                              end |-> <<C5_End(dbQueries[up])>>] >>
         /\ plan.usedQueries = {1, 2}

-----------------------------------------------------------------------------
(* C6 *)

HasUsable(f) == UsableOn(f) # {}

\* f has a usable clause and its anchor is not an IN over no value
HasRanges(f) ==
  \E i \in UsableOn(f) :
    /\ IsAnchor(i, f)
    /\ ~(dbQueries[i].comparator = "IN" /\ dbQueries[i].value = <<>>)

\* length of the longest prefix of the index fields that all satisfy P
PrefixLen(P(_)) ==
  CHOOSE n \in 0..Len(indexFields) :
    /\ \A k \in 1..n : P(indexFields[k])
    /\ n = Len(indexFields) \/ ~P(indexFields[n + 1])

C6_ConstrainsPrefix(n) ==
  /\ \A i \in 1..Len(plan.ranges) :
       Len(plan.ranges[i].start) = n /\ Len(plan.ranges[i].end) = n
  /\ \A i \in plan.usedQueries :
       \E k \in 1..n : dbQueries[i].field = indexFields[k]
  /\ \A k \in 1..n :
       \E i \in plan.usedQueries : dbQueries[i].field = indexFields[k]
  /\ n = 0 => plan.ranges = <<>> /\ plan.usedQueries = {}
  /\ n > 0 => plan.ranges # <<>>

\* C6 as stated: the plan constrains exactly the longest prefix of the index
\* fields in which every field has an index-usable clause.
C6_PrefixOfUsableFields ==
  pc = "planned" => C6_ConstrainsPrefix(PrefixLen(HasUsable))

\* C6: the plan constrains exactly the longest prefix of the index fields in
\* which every field has an index-usable clause whose most specific one is
\* not an IN over an empty list: every boundary has one element per field of
\* that prefix, only clauses on these fields are used, each of them has a used
\* clause, and an empty prefix gives no range and no used clause.
C6_PrefixOfRangedFields ==
  pc = "planned" => C6_ConstrainsPrefix(PrefixLen(HasRanges))

\* index [a, b, c], clauses on a and c only: a's clause alone is used
C6_Witness ==
  /\ pc = "planned"
  /\ indexFields = <<"a", "b", "c">>
  /\ HasRanges("a") /\ ~HasUsable("b") /\ HasRanges("c")
  /\ plan.usedQueries # {}
  /\ \A i \in plan.usedQueries : dbQueries[i].field = "a"

-----------------------------------------------------------------------------
(* C7 *)

C7_Expected(vs) ==
  LET n == Len(vs)
      hasNull == \E k \in 1..n : vs[k] = Null
  IN [k \in 1..(IF hasNull THEN n + 1 ELSE n) |->
        IF k <= n
        THEN [start |-> << <<vs[k]>> >>,
              end |-> << <<vs[k], BinaryInfinityPositive>> >>]
        ELSE [start |-> << <<undefinedSymbol>> >>,
              end |-> << <<undefinedSymbol, BinaryInfinityPositive>> >>]]

\* C7: when the anchor of the indexed field is an EQ or IN clause, the plan
\* has one range from the value to its edge after per operand value, in
\* operand order, followed by the range of the undefined symbol when an
\* operand is null; a key is in a range exactly when its field is one of the
\* operands, or absent when null is one of them; the anchor is the only used
\* clause.
C7_EqInRanges ==
  \A i \in 1..Len(dbQueries) :
    (pc = "planned" /\ indexFields = <<"a">> /\ IsAnchor(i, "a")
       /\ dbQueries[i].comparator \in {"EQ", "IN"})
      => LET vs == dbQueries[i].value
         IN /\ plan.ranges = C7_Expected(vs)
            /\ vs # <<>> => plan.usedQueries = {i}
            /\ \A k \in AllKeys(indexFields) :
                 InSomeRange(k, plan.ranges)
                   <=> \/ FieldOf(k, "a") \in Range(vs)
                       \/ FieldOf(k, "a") = undefinedSymbol /\ Null \in Range(vs)

\* {in: [null, 1]} with another clause on the field: three ranges
C7_Witness ==
  /\ pc = "planned"
  /\ indexFields = <<"a">>
  /\ Len(dbQueries) = 2
  /\ IsAnchor(1, "a")
  /\ dbQueries[1].comparator = "IN"
  /\ dbQueries[1].value = <<Null, 1>>
  /\ Len(plan.ranges) = 3
  /\ plan.usedQueries = {1}

-----------------------------------------------------------------------------
(* C9 *)

\* clause i is the anchor of field a and no clause bounds a from the other side
C9_OpenEnded(i) ==
  /\ pc = "planned"
  /\ indexFields = <<"a">>
  /\ IsAnchor(i, "a")
  /\ \/ /\ IsUpper(dbQueries[i])
        /\ \A j \in UsableOn("a") : ~IsLower(dbQueries[j])
     \/ /\ IsLower(dbQueries[i])
        /\ \A j \in UsableOn("a") : ~IsUpper(dbQueries[j])

\* C9: an open-ended comparison with a value other than null starts at the
\* edge after the undefined symbol (LT, LTE) or ends at positive infinity
\* (GT, GTE) and its range holds no key whose field is null or absent; with
\* null it starts at negative infinity (LT, LTE) or ends at the edge after
\* null (GT, GTE).
C9_OpenEndedRails ==
  \A i \in 1..Len(dbQueries) :
    C9_OpenEnded(i)
      => LET q == dbQueries[i]
             v == q.value[1]
         IN /\ Len(plan.ranges) = 1
            /\ IsUpper(q) =>
                 plan.ranges[1].start =
                   << IF v = Null THEN <<BinaryInfinityNegative>>
                      ELSE <<undefinedSymbol, BinaryInfinityPositive>> >>
            /\ IsLower(q) =>
                 plan.ranges[1].end =
                   << IF v = Null THEN <<Null, BinaryInfinityPositive>>
                      ELSE <<BinaryInfinityPositive>> >>
            /\ v # Null =>
                 \A k \in AllKeys(indexFields) :
                   InRange(k, plan.ranges[1])
                     => FieldOf(k, "a") \notin {Null, undefinedSymbol}

\* {lte: 2} alone: the keys of 1 and 2 are in the range
C9_Witness ==
  /\ pc = "planned"
  /\ dbQueries = <<[field |-> "a", comparator |-> "LTE", value |-> <<2>>]>>
  /\ C9_OpenEnded(1)
  /\ \A k \in AllKeys(indexFields) :
       InSomeRange(k, plan.ranges) <=> FieldOf(k, "a") \in {1, 2}

-----------------------------------------------------------------------------
(* C2 *)

SortedDisjoint(ranges) ==
  \A i, j \in 1..Len(ranges) :
    i < j => KeyLeq(Upper(ranges[i]), Lower(ranges[j]))

\* one scan of the whole index in the direction of the context, keeping the
\* keys that lie in a planned range
FilteredFullScan ==
  LET kept == SelectSeq(index, LAMBDA k : InSomeRange(k, plan.ranges))
  IN IF reverse THEN Reversed(kept) ELSE kept

\* C2: the planned ranges are sorted and mutually non-overlapping, and the
\* concatenation of the per-range scans is the filtered single scan, entry
\* for entry (no limit, no offset, one key per node).
C2_ConcatenationIsFilteredScan ==
  (pc = "done" /\ plan.ranges # <<>> /\ limit = NoLimit /\ offset = 0
     /\ maxKeysPerItem = 1)
    => /\ SortedDisjoint(plan.ranges)
       /\ result.entries = FilteredFullScan

-----------------------------------------------------------------------------
(* C3 *)

\* C3: when countUsingIndex succeeds, its number is the number of distinct
\* node ids filterUsingIndex yields for the same clauses and index (no limit,
\* no offset).
C3_CountIsDistinctDocuments ==
  (pc = "done" /\ count.status = "ok" /\ limit = NoLimit /\ offset = 0)
    => count.value = Cardinality(Ids(narrowed.entries))

-----------------------------------------------------------------------------
(* C4 *)

C4_LimitedMultiKeyScan ==
  /\ pc = "done"
  /\ plan.ranges # <<>>
  /\ maxKeysPerItem > 1
  /\ limit # NoLimit

-----------------------------------------------------------------------------
(* C8 *)

\* C8: when more than one range is scanned, every scan is given offset 0 and
\* the reported offset is 0, whatever offset and limit were requested; a
\* requested limit is still given to every scan.
C8_NoOffsetAcrossRanges ==
  (pc = "done" /\ Len(plan.ranges) > 1)
    => /\ result.usedOffset = 0
       /\ \A i \in 1..Len(result.scans) :
            /\ result.scans[i].offset = 0
            /\ limit # NoLimit => result.scans[i].limit # NoLimit

-----------------------------------------------------------------------------
(* C10 *)

NullOrAbsent(entry) == entry[firstFieldOffset + 1] \in {Null, undefinedSymbol}

-----------------------------------------------------------------------------
(* C11 *)

\* the clauses range planning left unused whose field is in the index
Narrowable ==
  {i \in 1..Len(dbQueries) :
     i \notin plan.usedQueries /\ dbQueries[i].field \in Range(indexFields)}

PassesNarrowable(entry) ==
  \A i \in Narrowable :
    shouldFilter(dbQueries[i], FieldOf(entry, dbQueries[i].field))

\* what narrowing owes: the narrowable clauses are added to the used ones,
\* no other clause is; the scanned entries that pass them all are kept, in
\* order
C11_Narrows ==
  /\ narrowed.status = "ok"
  /\ narrowed.usedQueries = plan.usedQueries \cup Narrowable
  /\ narrowed.entries = SelectSeq(result.entries, PassesNarrowable)
  /\ Narrowable = {} => narrowed.entries = result.entries

\* C11: after filterUsingIndex, every clause that range planning left unused
\* and whose field is an index field is in the returned usedQueries and
\* filters the scanned entries on the key position of its field (AND over
\* the clauses); clauses on other fields stay out of usedQueries and filter
\* nothing; with no such clause the scanned sequence is returned unchanged.
C11_NarrowingAfterFilter ==
  pc = "done" => C11_Narrows

\* the same of narrowResultsIfPossible called with the parameters of its
\* declaration
NarrowingAsDeclared ==
  pc = "narrowResultsIfPossible" => C11_Narrows

=============================================================================
